---- MODULE Spec2Model ----
(***************************************************************************)
(* Model of download_barrage.py: the URL collector (read_urls), the        *)
(* episode resolver (extract_episode_urls), the response capture engine    *)
(* (collect_barrage_for_page) and the orchestrator loop of main.           *)
(*                                                                         *)
(* Python strings are modelled as sequences of one-character strings, so   *)
(* that substring tests, strip, rstrip and split are computed, not assumed.*)
(***************************************************************************)
EXTENDS Integers, Sequences, FiniteSets, TLC

VARIABLES
    args,             \* argparse.Namespace: urls, url_file, lines, playlist_urls
    dom,              \* anchors returned by page.eval_on_selector_all
    fpc,              \* position of the pure-function harnesses
    ret,              \* value returned by the function under test
    input,            \* argument of the function under test
    ret2,             \* value returned for the argument ret
    mpc,              \* position of main
    urls,             \* main: urls = read_urls(args)
    episode_entries,  \* main: episode_entries
    pl_idx,           \* main: 1-based position in args.playlist_urls
    unique_entries,   \* main: unique_entries
    idx,              \* main: idx of enumerate(unique_entries, start=1)
    files,            \* files written by out_path.write_text: name and payload
    now,              \* the clock: number of pages opened so far
    timestamp,        \* main: timestamp
    browser,          \* main: browser
    context,          \* main: context
    closes,           \* the close() calls main has completed, in order
    pages,            \* number of pages open in the browsing context
    epc,              \* position of extract_episode_urls
    cpc,              \* position of collect_barrage_for_page
    responses,        \* responses the current page has received so far, each
                      \* with whether it came when the drain had begun
    received,         \* number of responses received during the run
    tasks,            \* collect_barrage_for_page: tasks
    collected,        \* collect_barrage_for_page: collected
    gathered,         \* number of tasks handed to asyncio.gather
    first_matched,    \* page.wait_for_response has seen a matching response
    settled           \* page.wait_for_timeout(extra_wait_s) has been awaited

vars == <<args, dom, fpc, ret, input, ret2, mpc, urls, episode_entries, pl_idx,
          unique_entries, idx, files, now, timestamp, browser, context,
          closes, pages, epc, cpc, responses, received, tasks, collected, gathered, first_matched, settled>>

pureVars == <<args, dom, fpc, ret, input, ret2>>
sessionVars == <<timestamp, browser, context, closes>>
mainVars == <<mpc, urls, episode_entries, pl_idx, unique_entries, idx,
              files, now, sessionVars, pages, received>>
pageVars == <<epc, cpc, responses, tasks, collected, gathered,
              first_matched, settled>>

(***************************************************************************)
(* Bounds of the model.                                                    *)
(***************************************************************************)
MaxUrls == 2        \* length of --urls
MaxLines == 2       \* lines of --url-file
MaxAnchors == 3     \* anchors of one listing page
MaxResponses == 2   \* responses received during one run of main
MaxLabel == 3       \* characters of a label given to sanitize_label
MaxTitle == 4       \* characters of an entry's title
MaxIdx == 2         \* position of an entry in the visited list

(***************************************************************************)
(* Strings.                                                                *)
(***************************************************************************)
BSeq(S, n) == UNION {[1..k -> S] : k \in 0..n}

Range(s) == {s[i] : i \in DOMAIN s}

StartsWith(s, p) == Len(p) <= Len(s) /\ SubSeq(s, 1, Len(p)) = p

\* Python: sub in s
Contains(s, sub) ==
    \E i \in 0..(Len(s) - Len(sub)) : SubSeq(s, i + 1, i + Len(sub)) = sub

Whitespace == {" ", "\t"}

RECURSIVE lstrip(_, _)
lstrip(s, chars) ==
    IF s # <<>> /\ Head(s) \in chars THEN lstrip(Tail(s), chars) ELSE s

RECURSIVE rstrip(_, _)
rstrip(s, chars) ==
    IF s # <<>> /\ s[Len(s)] \in chars
    THEN rstrip(SubSeq(s, 1, Len(s) - 1), chars)
    ELSE s

\* Python: s.strip(); JavaScript: s.trim()
strip(s) == rstrip(lstrip(s, Whitespace), Whitespace)

\* Python: s.split(sep)[-1] for a one-character sep
RECURSIVE LastSegment(_, _)
LastSegment(s, sep) ==
    IF \E i \in DOMAIN s : s[i] = sep
    THEN LastSegment(Tail(s), sep)
    ELSE s

\* The longest prefix of s holding no character of stop.
RECURSIVE TakeUntil(_, _)
TakeUntil(s, stop) ==
    IF s = <<>> \/ Head(s) \in stop THEN <<>>
    ELSE <<Head(s)>> \o TakeUntil(Tail(s), stop)

\* s from its first character of stop on (empty when it has none).
RECURSIVE DropUntil(_, _)
DropUntil(s, stop) ==
    IF s = <<>> \/ Head(s) \in stop THEN s ELSE DropUntil(Tail(s), stop)

\* urllib.parse.urlparse(url).path: the scheme up to ':' and the netloc
\* after '//' are split off, the path ends at the first '?' or '#'.
urlparse_path(url) ==
    LET head == TakeUntil(url, {":", "/", "?", "#"})
        rest == DropUntil(url, {":", "/", "?", "#"})
        noscheme == IF head # <<>> /\ rest # <<>> /\ Head(rest) = ":"
                    THEN Tail(rest) ELSE url
        nonetloc == IF StartsWith(noscheme, <<"/", "/">>)
                    THEN DropUntil(SubSeq(noscheme, 3, Len(noscheme)),
                                   {"/", "?", "#"})
                    ELSE noscheme
    IN  TakeUntil(nonetloc, {"?", "#"})

None == <<"<None>">>

\* Python truthiness of an optional string
Truthy(x) == x # None /\ x # <<>>

(***************************************************************************)
(* read_urls                                                               *)
(***************************************************************************)
\* the generator of lines 102-104: stripped lines, blank ones dropped
RECURSIVE file_urls(_)
file_urls(lines) ==
    IF lines = <<>> THEN <<>>
    ELSE (IF strip(Head(lines)) # <<>> THEN <<strip(Head(lines))>> ELSE <<>>)
         \o file_urls(Tail(lines))

\* the loop of lines 106-111
RECURSIVE dedupe_loop(_, _, _)
dedupe_loop(us, deduped, seen) ==
    IF us = <<>> THEN deduped
    ELSE IF Head(us) \notin seen
         THEN dedupe_loop(Tail(us), Append(deduped, Head(us)),
                          seen \cup {Head(us)})
         ELSE dedupe_loop(Tail(us), deduped, seen)

\* lines 97-105: explicit URLs, then the lines of an existing file
merged_urls(a) ==
    (IF a.urls # <<>> THEN a.urls ELSE <<>>)
    \o (IF a.url_file = "present" THEN file_urls(a.lines) ELSE <<>>)

read_urls_nodedupe(a) == merged_urls(a)

read_urls(a) == dedupe_loop(merged_urls(a), <<>>, {})

(***************************************************************************)
(* sanitize_label                                                          *)
(***************************************************************************)
LowerCase == <<"a", "b", "c", "d", "e", "f", "g", "h", "i", "j", "k", "l", "m",
               "n", "o", "p", "q", "r", "s", "t", "u", "v", "w", "x", "y", "z">>

UpperCase == <<"A", "B", "C", "D", "E", "F", "G", "H", "I", "J", "K", "L", "M",
               "N", "O", "P", "Q", "R", "S", "T", "U", "V", "W", "X", "Y", "Z">>

Letters == Range(LowerCase) \cup Range(UpperCase)

Digits == <<"0", "1", "2", "3", "4", "5", "6", "7", "8", "9">>

\* one "character" that NFKC changes: FULLWIDTH SOLIDUS, which becomes "/"
FullwidthSolidus == "U+FF0F"

\* unicodedata.normalize("NFKC", text), line 124
nfkc(text) ==
    [i \in DOMAIN text |-> IF text[i] = FullwidthSolidus THEN "/" ELSE text[i]]

\* the class of line 126: [\\\\/:*?"<>|]
Reserved == {"\\", "/", ":", "*", "?", "\"", "<", ">", "|"}

\* \w of line 129: letters, digits and the underscore
WordChars == Letters \cup Range(Digits) \cup {"_"}

\* the characters line 129 leaves alone: [\w.一-鿿-] (the inputs
\* hold no CJK ideograph)
Allowed == WordChars \cup {".", "-"}

\* re.sub('[class]', by, text): each character of the class is replaced
sub_each(text, class, by) ==
    [i \in DOMAIN text |-> IF text[i] \in class THEN by ELSE text[i]]

\* re.sub('[class]+', by, text): each maximal run of the class is replaced
RECURSIVE sub_runs(_, _, _)
sub_runs(text, class, by) ==
    IF text = <<>> THEN <<>>
    ELSE IF Head(text) \in class
         THEN <<by>> \o sub_runs(lstrip(text, class), class, by)
         ELSE <<Head(text)>> \o sub_runs(Tail(text), class, by)

\* re.sub('c{2,}', c, text): each run of two or more c becomes one c
RECURSIVE collapse(_, _)
collapse(text, c) ==
    IF text = <<>> THEN <<>>
    ELSE IF Head(text) = c
         THEN <<c>> \o collapse(lstrip(text, {c}), c)
         ELSE <<Head(text)>> \o collapse(Tail(text), c)

\* the complement of a class within the characters of a text
NotIn(text, class) == Range(text) \ class

Episode == <<"e", "p", "i", "s", "o", "d", "e">>

\* line 132 moved before the substitutions
clean_label_strip_first(label) ==
    LET t0 == nfkc(strip(label))
        t00 == rstrip(lstrip(t0, {".", "_", "-"}), {".", "_", "-"})
        t1 == sub_each(t00, Reserved, "-")
        t2 == sub_runs(t1, Whitespace, "_")
        t3 == sub_runs(t2, NotIn(t2, Allowed), "-")
        t4 == collapse(t3, "-")
    IN  collapse(t4, "_")

\* lines 124-132: the text before the fallback of line 133
clean_label(label) ==
    LET t0 == nfkc(strip(label))
        t1 == sub_each(t0, Reserved, "-")
        t2 == sub_runs(t1, Whitespace, "_")
        t3 == sub_runs(t2, NotIn(t2, Allowed), "-")
        t4 == collapse(t3, "-")
        t5 == collapse(t4, "_")
    IN  rstrip(lstrip(t5, {".", "_", "-"}), {".", "_", "-"})

or_episode_missing(text) == text

\* line 133: text or "episode"
or_episode(text) == IF text = <<>> THEN Episode ELSE text

\* lines 123-133
sanitize_label(label) == or_episode(clean_label(label))

(***************************************************************************)
(* The label and the file name of an entry, lines 308 and 317-329 of main  *)
(***************************************************************************)
\* str.lower
lower(text) ==
    [i \in DOMAIN text |->
        IF text[i] \in Range(UpperCase)
        THEN LowerCase[CHOOSE k \in DOMAIN UpperCase : UpperCase[k] = text[i]]
        ELSE text[i]]

\* str(n) for n >= 0
RECURSIVE decimal(_)
decimal(n) ==
    IF n < 10 THEN <<Digits[n + 1]>>
    ELSE decimal(n \div 10) \o <<Digits[(n % 10) + 1]>>

\* f"{idx:02d}"
two_digits(n) == IF n < 10 THEN <<"0">> \o decimal(n) ELSE decimal(n)

\* f"ep{idx:02d}"
ep(n) == <<"e", "p">> \o two_digits(n)

\* line 308
title_of(entry) ==
    IF Truthy(entry.title) THEN sanitize_label(entry.title) ELSE <<>>

\* line 318 without .lower()
title_is_duplicate_cased(title, i) ==
    Truthy(title) /\ title \in {two_digits(i), ep(i)}

\* line 318
title_is_duplicate(title, i) ==
    Truthy(title) /\ lower(title) \in {two_digits(i), ep(i)}

\* line 320
label_of(title, i) ==
    IF Truthy(title) /\ ~title_is_duplicate(title, i) THEN title ELSE ep(i)

series_prefix_ignored(series_name) == <<>>

\* line 317
series_prefix(series_name) ==
    IF Truthy(series_name) THEN sanitize_label(series_name) ELSE <<>>

\* lines 322-327
name_parts(prefix, label, i) ==
    IF Truthy(prefix) THEN <<prefix, label>> ELSE <<two_digits(i), label>>

BarrageJson == <<"_", "b", "a", "r", "r", "a", "g", "e", ".", "j", "s", "o", "n">>

\* "_".join(parts)
RECURSIVE join(_)
join(parts) ==
    IF parts = <<>> THEN <<>>
    ELSE IF Len(parts) = 1 THEN Head(parts)
    ELSE Head(parts) \o <<"_">> \o join(Tail(parts))

\* lines 308 and 317-328: the file name of entry number i
out_name(series_name, entry, i) ==
    join(name_parts(series_prefix(series_name),
                    label_of(title_of(entry), i), i)) \o BarrageJson

(***************************************************************************)
(* extract_episode_urls, lines 195-214: from the anchors to the result     *)
(***************************************************************************)
PlayMarker == <<"/", "p", "l", "a", "y", "/">>

\* line 199
base_slug_of(playlist_url) ==
    LET path == urlparse_path(playlist_url)
    IN  IF Contains(path, PlayMarker)
        THEN LastSegment(rstrip(path, {"/"}), "/")
        ELSE None

slug_filter_off(base_slug, href) == FALSE

\* line 207 testing for the slug alone
slug_filter_bare_slug(base_slug, href) ==
    Truthy(base_slug) /\ ~Contains(href, base_slug)

\* line 207: the anchor is skipped as another show's
slug_filter_drops(base_slug, href) ==
    Truthy(base_slug) /\ ~Contains(href, PlayMarker \o base_slug)

\* the loop of lines 200-213
RECURSIVE extract_loop(_, _, _, _)
extract_loop(anchors, base_slug, results, seen) ==
    IF anchors = <<>> THEN results
    ELSE LET item == Head(anchors)
             href == item.href
             text == item.text
         IN  IF href = <<>>
             THEN extract_loop(Tail(anchors), base_slug, results, seen)
             ELSE IF slug_filter_drops(base_slug, href)
             THEN extract_loop(Tail(anchors), base_slug, results, seen)
             ELSE IF href \in seen
             THEN extract_loop(Tail(anchors), base_slug, results, seen)
             ELSE extract_loop(Tail(anchors), base_slug,
                               Append(results, [url |-> href, title |-> text]),
                               seen \cup {href})

\* lines 195-214
extract_results(playlist_url, anchors) ==
    IF anchors = <<>> THEN <<>>
    ELSE extract_loop(anchors, base_slug_of(playlist_url), <<>>, {})

\* the JavaScript of lines 187-192 applied to the matched elements
eval_anchors(els) ==
    [i \in DOMAIN els |-> [href |-> els[i].href, text |-> strip(els[i].text)]]

(***************************************************************************)
(* Inputs.                                                                 *)
(***************************************************************************)
Site == <<"s", ":", "/", "/", "h">>

ListAb == Site \o PlayMarker \o <<"a", "b">>
ListAbSlash == ListAb \o <<"/">>
ListAbQuery == ListAb \o <<"?", "x">>
ListTv == Site \o <<"/", "t", "v">>
ListTvQuery == ListTv \o <<"?", "r", "=">> \o PlayMarker \o <<"a", "b">>
ListPlay == Site \o PlayMarker

ListingUrls == {ListAb, ListAbSlash, ListAbQuery, ListTv, ListTvQuery, ListPlay}

PageAb == Site \o PlayMarker \o <<"a", "b">>
PageAb2 == Site \o PlayMarker \o <<"a", "b", "/", "2">>
PageAbc == Site \o PlayMarker \o <<"a", "b", "c">>
PageCd == Site \o PlayMarker \o <<"c", "d">>
PageCdFromAb == Site \o PlayMarker \o <<"c", "d", "?", "f", "=", "a", "b">>

\* a[href*='/play/']: every matched element's href holds the marker
Hrefs == {PageAb, PageAb2, PageAbc, PageCd, PageCdFromAb}
Texts == {<<" ", "1", " ">>, <<>>}
Elements == [href : Hrefs, text : Texts]

UrlArgs == {<<"a">>, <<"b">>, <<"a", "/">>}
FileLines == {<<>>, <<" ">>, <<"a">>, <<" ", "a">>, <<"b", " ">>, <<"c">>}
FileStates == {"none", "missing", "present"}

IdleMain ==
    /\ mpc = "idle" /\ urls = <<>> /\ episode_entries = <<>> /\ pl_idx = 0
    /\ unique_entries = <<>> /\ idx = 0 /\ files = {}
    /\ now = 0 /\ timestamp = None /\ browser = "None" /\ context = "None"
    /\ closes = <<>>
    /\ pages = 0 /\ received = 0

IdlePage ==
    /\ epc = "idle" /\ cpc = "idle" /\ responses = <<>> /\ tasks = <<>>
    /\ collected = <<>> /\ gathered = 0 /\ first_matched = FALSE
    /\ settled = FALSE

(***************************************************************************)
(* read_urls as a function of its arguments.                               *)
(***************************************************************************)
InitReadUrls ==
    /\ args \in [urls : BSeq(UrlArgs, MaxUrls), url_file : FileStates,
                 lines : BSeq(FileLines, MaxLines), playlist_urls : {<<>>}]
    /\ dom = <<>> /\ fpc = "call" /\ ret = <<>>
    /\ input = <<>> /\ ret2 = <<>>
    /\ IdleMain /\ IdlePage

CallReadUrls ==
    /\ fpc = "call"
    /\ ret' = read_urls(args)
    /\ fpc' = "returned"
    /\ UNCHANGED <<args, dom, input, ret2, mainVars, pageVars>>

SpecReadUrls == InitReadUrls /\ [][CallReadUrls]_vars

(***************************************************************************)
(* extract_episode_urls from the anchors on (lines 185-214), as a function *)
(* of the listing URL and of the document.                                 *)
(***************************************************************************)
InitExtract ==
    /\ args \in [urls : {<<>>}, url_file : {"none"}, lines : {<<>>},
                 playlist_urls : {<<u>> : u \in ListingUrls}]
    /\ dom \in BSeq(Elements, MaxAnchors)
    /\ fpc = "call" /\ ret = <<>>
    /\ input = <<>> /\ ret2 = <<>>
    /\ IdleMain /\ IdlePage

CallExtract ==
    /\ fpc = "call"
    /\ ret' = extract_results(args.playlist_urls[1], eval_anchors(dom))
    /\ fpc' = "returned"
    /\ UNCHANGED <<args, dom, input, ret2, mainVars, pageVars>>

SpecExtract == InitExtract /\ [][CallExtract]_vars

(***************************************************************************)
(* sanitize_label as a function of its argument, applied once and then to  *)
(* its own result.                                                         *)
(***************************************************************************)
LabelChars == {"a", "1", " ", ".", "-", "_", FullwidthSolidus} \cup Reserved

InitSanitize ==
    /\ args = [urls |-> <<>>, url_file |-> "none", lines |-> <<>>,
               playlist_urls |-> <<>>]
    /\ input \in BSeq(LabelChars, MaxLabel)
    /\ dom = <<>> /\ fpc = "call" /\ ret = <<>> /\ ret2 = <<>>
    /\ IdleMain /\ IdlePage

CallSanitize ==
    /\ fpc = "call"
    /\ ret' = sanitize_label(input)
    /\ fpc' = "returned"
    /\ UNCHANGED <<args, dom, input, ret2, mainVars, pageVars>>

CallSanitizeAgain ==
    /\ fpc = "returned"
    /\ ret2' = sanitize_label(ret)
    /\ fpc' = "returned twice"
    /\ UNCHANGED <<args, dom, input, ret, mainVars, pageVars>>

SpecSanitize == InitSanitize /\ [][CallSanitize \/ CallSanitizeAgain]_vars

(***************************************************************************)
(* The label and the file name as functions of the entry's title, its      *)
(* position and --series-name.                                             *)
(***************************************************************************)
TitleChars == {"0", "1", "2", "e", "p", "E", "/"}

SeriesNames == {None, <<>>, <<"S">>, <<"a", " ", "b">>}

InitName ==
    /\ \E s \in SeriesNames :
        args = [urls |-> <<>>, url_file |-> "none", lines |-> <<>>,
                playlist_urls |-> <<>>, series_name |-> s]
    /\ \E i \in 1..MaxIdx, t \in BSeq(TitleChars, MaxTitle) :
        input = [idx |-> i, title |-> t]
    /\ dom = <<>> /\ fpc = "call" /\ ret = <<>> /\ ret2 = <<>>
    /\ IdleMain /\ IdlePage

CallName ==
    /\ fpc = "call"
    /\ ret' = label_of(title_of(input), input.idx)
    /\ ret2' = out_name(args.series_name, input, input.idx)
    /\ fpc' = "returned"
    /\ UNCHANGED <<args, dom, input, mainVars, pageVars>>

SpecName == InitName /\ [][CallName]_vars

(***************************************************************************)
(* Responses and their decoding.                                           *)
(***************************************************************************)
Marker == <<"g", "e", "t", "B", "a", "r", "r", "a", "g", "e">>

ApiUrl == Site \o <<"/">> \o Marker \o <<"?", "x">>
ScriptUrl == Site \o <<"/", "s", ".", "j", "s">>

\* What a page can receive: a JSON body, a body that is no JSON, a response
\* whose body cannot be fetched (a redirect), and a response of no interest.
ResponseKinds ==
    { [url |-> ApiUrl, status |-> 200, headers |-> "application/json",
       text |-> <<"7">>, body_available |-> TRUE],
      [url |-> ApiUrl, status |-> 500, headers |-> "text/html",
       text |-> <<"o", "k">>, body_available |-> TRUE],
      [url |-> ApiUrl, status |-> 302, headers |-> "text/html",
       text |-> <<>>, body_available |-> FALSE],
      [url |-> ScriptUrl, status |-> 200, headers |-> "text/javascript",
       text |-> <<"o", "k">>, body_available |-> TRUE] }

IsNumber(text) == text # <<>> /\ \A i \in DOMAIN text : text[i] \in Range(Digits)

DigitValue(c) == (CHOOSE i \in DOMAIN Digits : Digits[i] = c) - 1

RECURSIVE NumberValue(_)
NumberValue(text) ==
    IF text = <<>> THEN 0
    ELSE NumberValue(SubSeq(text, 1, Len(text) - 1)) * 10
         + DigitValue(text[Len(text)])

\* response.json(): json.loads of the body text; it raises when the body
\* cannot be fetched or is no JSON (the JSON texts modelled are the numbers)
json_raises(r) == ~r.body_available \/ ~IsNumber(r.text)
json_value(r) == [kind |-> "json", number |-> NumberValue(r.text), text |-> <<>>]

\* response.text(): the body text; it raises when the body cannot be fetched
text_raises(r) == ~r.body_available
text_value(r) == [kind |-> "text", number |-> 0, text |-> r.text]

\* lines 144 and 167: "getBarrage" in response.url
is_barrage(r) == Contains(r.url, Marker)

\* lines 150-157; rid names the response the entry was decoded from
captured(r, rid, body) ==
    [api_url |-> r.url, status |-> r.status, headers |-> r.headers,
     body |-> body, rid |-> rid]

(***************************************************************************)
(* main, extract_episode_urls and collect_barrage_for_page as processes.   *)
(* A position (mpc, epc, cpc) is the await the coroutine is suspended at.  *)
(***************************************************************************)
\* the command lines of the runs: --urls and --playlist-urls
CdpEndpoint == <<"w", "s", ":", "/", "/", "h", ":", "9">>

ProfileDir == <<"p">>

RunArgs ==
    { [urls |-> <<>>, playlist_urls |-> <<>>, series_name |-> None,
       connect_over_cdp |-> None, user_data_dir |-> None],
      [urls |-> <<PageAb>>, playlist_urls |-> <<>>, series_name |-> <<>>,
       connect_over_cdp |-> CdpEndpoint, user_data_dir |-> None],
      [urls |-> <<PageAb, PageAb>>, playlist_urls |-> <<ListAb>>,
       series_name |-> None,
       connect_over_cdp |-> None, user_data_dir |-> ProfileDir],
      [urls |-> <<>>, playlist_urls |-> <<ListTv, ListAb>>,
       series_name |-> <<"S">>,
       connect_over_cdp |-> None, user_data_dir |-> None],
      [urls |-> <<PageCd>>, playlist_urls |-> <<ListAb, ListTv>>,
       series_name |-> None,
       connect_over_cdp |-> CdpEndpoint, user_data_dir |-> ProfileDir] }

\* the anchors a listing page shows; the second anchor of the last one has no
\* text and the first is titled like the index label of the second
RunDoms ==
    { <<>>,
      <<[href |-> PageAb, text |-> <<" ", "1", " ">>]>>,
      <<[href |-> PageAb2, text |-> <<"e", "p", "0", "2">>],
        [href |-> PageCd, text |-> <<>>]>> }

Init ==
    /\ args \in {[urls |-> a.urls, url_file |-> "none", lines |-> <<>>,
                   playlist_urls |-> a.playlist_urls,
                   series_name |-> a.series_name,
                   connect_over_cdp |-> a.connect_over_cdp,
                   user_data_dir |-> a.user_data_dir] : a \in RunArgs}
    /\ dom = <<>> /\ fpc = "idle" /\ ret = <<>>
    /\ input = <<>> /\ ret2 = <<>>
    /\ mpc = "start" /\ urls = <<>> /\ episode_entries = <<>> /\ pl_idx = 0
    /\ unique_entries = <<>> /\ idx = 0 /\ files = {} /\ pages = 0
    /\ now = 0 /\ timestamp = None /\ browser = "None" /\ context = "None"
    /\ closes = <<>>
    /\ received = 0
    /\ IdlePage

\* the loop of lines 296-303 keeping for each url the entry seen last
RECURSIVE unique_loop_last_wins(_, _, _)
unique_loop_last_wins(entries, seen_urls, unique) ==
    IF entries = <<>> THEN unique
    ELSE IF Head(entries).url \in seen_urls
         THEN unique_loop_last_wins(Tail(entries), seen_urls,
                  [k \in DOMAIN unique |->
                      IF unique[k].url = Head(entries).url
                      THEN Head(entries) ELSE unique[k]])
         ELSE unique_loop_last_wins(Tail(entries),
                                    seen_urls \cup {Head(entries).url},
                                    Append(unique, Head(entries)))

\* the loop of lines 296-303
RECURSIVE unique_loop(_, _, _)
unique_loop(entries, seen_urls, unique) ==
    IF entries = <<>> THEN unique
    ELSE IF Head(entries).url \in seen_urls
         THEN unique_loop(Tail(entries), seen_urls, unique)
         ELSE unique_loop(Tail(entries), seen_urls \cup {Head(entries).url},
                          Append(unique, Head(entries)))

\* line 310: main awaits collect_barrage_for_page for entry i, which awaits
\* context.new_page()
CallCollect(i) ==
    /\ idx' = i
    /\ mpc' = "in_collect"
    /\ cpc' = "new_page"
    /\ responses' = <<>> /\ tasks' = <<>> /\ collected' = <<>>
    /\ gathered' = 0 /\ first_matched' = FALSE /\ settled' = FALSE

\* lines 341-348: the loop is over; main awaits browser.close() or
\* context.close()
AwaitContextClose ==
    /\ mpc' = "closing_context"
    /\ cpc' = "idle"
    /\ responses' = <<>> /\ tasks' = <<>> /\ collected' = <<>>
    /\ gathered' = 0 /\ first_matched' = FALSE /\ settled' = FALSE

\* line 306: the next iteration of the loop over unique_entries
NextEntry(entries, i) ==
    IF i <= Len(entries)
    THEN CallCollect(i)
    ELSE idx' = i /\ AwaitContextClose

\* lines 291-305: after the listings
AfterListings(entries) ==
    /\ episode_entries' = entries
    /\ epc' = "idle"
    /\ IF entries = <<>>
       THEN /\ mpc' = "done"
            /\ UNCHANGED <<unique_entries, idx, cpc, responses, tasks,
                           collected, gathered, first_matched, settled>>
       ELSE /\ unique_entries' = unique_loop(entries, {}, <<>>)
            /\ NextEntry(unique_loop(entries, {}, <<>>), 1)

\* line 278: the next iteration of the loop over args.playlist_urls; line 281
\* awaits extract_episode_urls, which awaits context.new_page()
NextListing(entries, k) ==
    /\ pl_idx' = k
    /\ IF k <= Len(args.playlist_urls)
       THEN /\ episode_entries' = entries
            /\ mpc' = "in_extract"
            /\ epc' = "new_page"
            /\ UNCHANGED <<unique_entries, idx, cpc, responses, tasks,
                           collected, gathered, first_matched, settled>>
       ELSE AfterListings(entries)

\* lines 237-273: the value of browser once the context exists
launched_browser(a) ==
    IF Truthy(a.connect_over_cdp) THEN "attached"
    ELSE IF Truthy(a.user_data_dir) THEN "None"
    ELSE "launched"

\* lines 218-278
MainStart ==
    /\ mpc = "start"
    /\ urls' = read_urls(args)
    /\ IF read_urls(args) = <<>> /\ args.playlist_urls = <<>>
       THEN /\ mpc' = "done"
            /\ UNCHANGED <<episode_entries, pl_idx, unique_entries, idx,
                           pageVars, timestamp, browser, context>>
       ELSE /\ timestamp' = now
            /\ browser' = launched_browser(args)
            /\ context' = "open"
            /\ NextListing([i \in DOMAIN read_urls(args) |->
                               [url |-> read_urls(args)[i], title |-> <<>>]], 1)
    /\ UNCHANGED <<pureVars, files, now, closes, pages, received>>

(***************************************************************************)
(* extract_episode_urls                                                    *)
(***************************************************************************)
\* line 180
ExtractNewPage ==
    /\ epc = "new_page"
    /\ pages' = pages + 1
    /\ epc' = "goto1"
    /\ now' = now + 1
    /\ UNCHANGED <<pureVars, mpc, urls, episode_entries, pl_idx,
                   unique_entries, idx, files, sessionVars, received, cpc,
                   responses, tasks, collected, gathered, first_matched,
                   settled>>

\* line 182 returns
ExtractGotoIdle ==
    /\ epc = "goto1"
    /\ epc' = "eval"
    /\ UNCHANGED <<pureVars, mainVars, cpc, responses, tasks, collected,
                   gathered, first_matched, settled>>

\* line 182 raises: lines 183-184
ExtractGotoIdleRaises ==
    /\ epc = "goto1"
    /\ epc' = "goto2"
    /\ UNCHANGED <<pureVars, mainVars, cpc, responses, tasks, collected,
                   gathered, first_matched, settled>>

\* line 184 returns
ExtractGotoLoad ==
    /\ epc = "goto2"
    /\ epc' = "eval"
    /\ UNCHANGED <<pureVars, mainVars, cpc, responses, tasks, collected,
                   gathered, first_matched, settled>>

main_lets_listing_exception_out ==
    /\ mpc' = "aborted"
    /\ epc' = "raised"
    /\ UNCHANGED <<episode_entries, pl_idx, unique_entries, idx, cpc,
                   responses, tasks, collected, gathered, first_matched,
                   settled>>

\* lines 282-284 and 288-289: the exception of extract_episode_urls is
\* caught, episodes = [], and the loop goes on
main_except_listing ==
    NextListing(episode_entries, pl_idx + 1)

\* line 184 raises: the exception leaves extract_episode_urls with the page
\* open
ExtractGotoLoadRaises ==
    /\ epc = "goto2"
    /\ main_except_listing
    /\ UNCHANGED <<pureVars, urls, files, now, sessionVars, pages, received>>

\* lines 185-194: the anchors are read and page.close() is awaited
ExtractEval ==
    /\ epc = "eval"
    /\ \E els \in RunDoms : dom' = els
    /\ epc' = "closing"
    /\ UNCHANGED <<args, fpc, ret, input, ret2, mainVars, cpc, responses, tasks, collected,
                   gathered, first_matched, settled>>

\* line 185 raises: the exception leaves extract_episode_urls with the page
\* open
ExtractEvalRaises ==
    /\ epc = "eval"
    /\ main_except_listing
    /\ UNCHANGED <<pureVars, urls, files, now, sessionVars, pages, received>>

\* line 194 returns; lines 195-214 and, in main, lines 285-289
ExtractReturns ==
    /\ epc = "closing"
    /\ pages' = pages - 1
    /\ LET episodes == extract_results(args.playlist_urls[pl_idx],
                                       eval_anchors(dom))
       IN  NextListing(episode_entries \o episodes, pl_idx + 1)
    /\ dom' = <<>>
    /\ UNCHANGED <<args, fpc, ret, input, ret2, urls, files, now, sessionVars,
                   received>>

(***************************************************************************)
(* collect_barrage_for_page                                                *)
(***************************************************************************)
\* The positions at which a response event reaches the callback of line 159:
\* page.on precedes the first page.goto.
ObservedLate == {"wait_resp", "settle", "drain"}

ObservedAt == {"goto1", "goto2", "wait_resp", "settle", "drain"}

\* the positions at which the page receives responses: every await from the
\* first page.goto to asyncio.gather (responses during page.close() are
\* left out: they can only add tasks that are never awaited)
Receiving == {"goto1", "goto2", "wait_resp", "settle", "drain"}

\* the awaits of collect_barrage_for_page, at which the event loop runs tasks
Suspended == {"goto1", "goto2", "wait_resp", "settle", "drain", "closing"}

\* lines 139-162
CollectNewPage ==
    /\ cpc = "new_page"
    /\ pages' = pages + 1
    /\ cpc' = "goto1"
    /\ now' = now + 1
    /\ UNCHANGED <<pureVars, mpc, urls, episode_entries, pl_idx,
                   unique_entries, idx, files, sessionVars, received, epc,
                   responses, tasks, collected, gathered, first_matched,
                   settled>>

\* The page receives a response: the callback of line 159 schedules
\* handle_response, and a pending page.wait_for_response sees it (line 167).
ResponseArrives ==
    /\ cpc \in Receiving
    /\ received < MaxResponses
    /\ received' = received + 1
    /\ \E r \in ResponseKinds :
          /\ responses' = Append(responses, [r |-> r, at_drain |-> cpc = "drain"])
          /\ tasks' = IF cpc \in ObservedAt
                      THEN Append(tasks, [rid |-> Len(responses) + 1,
                                          pc |-> "scheduled"])
                      ELSE tasks
          /\ first_matched' = (first_matched \/ (cpc = "wait_resp" /\ is_barrage(r)))
    /\ UNCHANGED <<pureVars, mpc, urls, episode_entries, pl_idx,
                   unique_entries, idx, files, now, sessionVars, pages, epc,
                   cpc, collected, gathered, settled>>

\* One step of a handle_response task (lines 143-157): from its start to the
\* end of response.json(), or from there to the end of response.text().
TaskStep ==
    /\ cpc \in Suspended
    /\ \E i \in DOMAIN tasks :
          LET t == tasks[i]
              r == responses[t.rid].r
          IN  \/ /\ t.pc = "scheduled"
                 /\ ~is_barrage(r)
                 /\ tasks' = [tasks EXCEPT ![i].pc = "done"]
                 /\ UNCHANGED collected
              \/ /\ t.pc = "scheduled"
                 /\ is_barrage(r)
                 /\ IF json_raises(r)
                    THEN /\ tasks' = [tasks EXCEPT ![i].pc = "text"]
                         /\ UNCHANGED collected
                    ELSE /\ tasks' = [tasks EXCEPT ![i].pc = "done"]
                         /\ collected' = Append(collected,
                                                captured(r, t.rid, json_value(r)))
              \/ /\ t.pc = "text"
                 /\ IF text_raises(r)
                    THEN /\ tasks' = [tasks EXCEPT ![i].pc = "raised"]
                         /\ UNCHANGED collected
                    ELSE /\ tasks' = [tasks EXCEPT ![i].pc = "done"]
                         /\ collected' = Append(collected,
                                                captured(r, t.rid, text_value(r)))
    /\ UNCHANGED <<pureVars, mainVars, epc, cpc, responses, gathered,
                   first_matched, settled>>

\* a task is finished, by returning or by raising
Finished(t) == t.pc \in {"done", "raised"}

\* line 162 returns: line 167
CollectGotoIdle ==
    /\ cpc = "goto1"
    /\ cpc' = "wait_resp"
    /\ UNCHANGED <<pureVars, mainVars, epc, responses, tasks, collected,
                   gathered, first_matched, settled>>

\* line 162 raises: lines 163-164
CollectGotoIdleRaises ==
    /\ cpc = "goto1"
    /\ cpc' = "goto2"
    /\ UNCHANGED <<pureVars, mainVars, epc, responses, tasks, collected,
                   gathered, first_matched, settled>>

\* line 164 returns: line 167
CollectGotoLoad ==
    /\ cpc = "goto2"
    /\ cpc' = "wait_resp"
    /\ UNCHANGED <<pureVars, mainVars, epc, responses, tasks, collected,
                   gathered, first_matched, settled>>

\* line 164 raises: the exception leaves collect_barrage_for_page and, at
\* line 310, main, which has no handler for it; the process ends
CollectGotoLoadRaises ==
    /\ cpc = "goto2"
    /\ cpc' = "raised"
    /\ mpc' = "aborted"
    /\ responses' = <<>> /\ tasks' = <<>> /\ collected' = <<>>
    /\ UNCHANGED <<pureVars, urls, episode_entries, pl_idx, unique_entries,
                   idx, files, now, sessionVars, pages, received, epc,
                   gathered, first_matched, settled>>

\* lines 172-174: the tasks scheduled so far are handed to asyncio.gather;
\* with no task, page.close() is awaited at once
BeginDrain ==
    IF tasks # <<>>
    THEN gathered' = Len(tasks) /\ cpc' = "drain"
    ELSE gathered' = 0 /\ cpc' = "closing"

always_drain(matched) == "drain"

\* lines 166-170: where the wait for the first match leads: to the settle
\* window when it returned, past it when it raised
after_first_wait(matched) == IF matched THEN "settle" ELSE "drain"

\* line 167 returns: line 168
WaitForResponseReturns ==
    /\ cpc = "wait_resp"
    /\ first_matched
    /\ IF after_first_wait(TRUE) = "settle"
       THEN cpc' = "settle" /\ UNCHANGED gathered
       ELSE BeginDrain
    /\ UNCHANGED <<pureVars, mainVars, epc, responses, tasks, collected,
                   first_matched, settled>>

\* line 167 raises TimeoutError: lines 169-170, then line 172
WaitForResponseTimesOut ==
    /\ cpc = "wait_resp"
    /\ ~first_matched
    /\ IF after_first_wait(FALSE) = "settle"
       THEN cpc' = "settle" /\ UNCHANGED gathered
       ELSE BeginDrain
    /\ UNCHANGED <<pureVars, mainVars, epc, responses, tasks, collected,
                   first_matched, settled>>

\* line 168 returns: line 172
SettleDone ==
    /\ cpc = "settle"
    /\ settled' = TRUE
    /\ BeginDrain
    /\ UNCHANGED <<pureVars, mainVars, epc, responses, tasks, collected,
                   first_matched>>

\* line 173: asyncio.gather(*tasks) is done when each task it was given is
gather_done(ts, n) == \A i \in 1..n : Finished(ts[i])

\* line 173 returns: line 174
GatherDone ==
    /\ cpc = "drain"
    /\ gather_done(tasks, gathered)
    /\ cpc' = "closing"
    /\ UNCHANGED <<pureVars, mainVars, epc, responses, tasks, collected,
                   gathered, first_matched, settled>>

write_always(barrages) == TRUE

\* line 313
writes_file(barrages) == barrages # <<>>

\* lines 331-338 with the clock read at line 335
payload_stamped_at_write(i, entry, barrages) ==
    [idx |-> i, source_page |-> entry.url, title |-> entry.title,
     series |-> IF Truthy(args.series_name) THEN args.series_name ELSE <<>>,
     captured_at |-> now,
     count |-> Len(barrages), requests |-> barrages]

\* lines 331-338; idx is not a key of the payload, it records which
\* iteration built it
payload(i, entry, barrages) ==
    [idx |-> i, source_page |-> entry.url, title |-> entry.title,
     series |-> IF Truthy(args.series_name) THEN args.series_name ELSE <<>>,
     captured_at |-> timestamp,
     count |-> Len(barrages), requests |-> barrages]

\* line 339: out_path.write_text creates the file or replaces its content
write_text(fs, name, content) ==
    {f \in fs : f.name # name} \cup {[name |-> name] @@ content}

\* line 174 returns and collect_barrage_for_page returns collected; in main,
\* lines 313-340 and the next iteration of the loop, which run without an
\* await: a task still unfinished here can no longer change what is written
CollectReturns ==
    /\ cpc = "closing"
    /\ pages' = pages - 1
    /\ files' = IF writes_file(collected)
                THEN write_text(files,
                                out_name(args.series_name, unique_entries[idx], idx),
                                payload(idx, unique_entries[idx], collected))
                ELSE files
    /\ NextEntry(unique_entries, idx + 1)
    /\ UNCHANGED <<pureVars, urls, episode_entries, pl_idx, unique_entries,
                   now, sessionVars, received, epc>>

\* lines 345-348
MainCloseContext ==
    /\ mpc = "closing_context"
    /\ mpc' = "done"
    /\ closes' = Append(closes, IF browser # "None" THEN "browser.close"
                                 ELSE "context.close")
    /\ UNCHANGED <<pureVars, urls, episode_entries, pl_idx, unique_entries,
                   idx, files, now, timestamp, browser, context, pages,
                   received, pageVars>>

Next ==
    \/ MainStart
    \/ ExtractNewPage \/ ExtractGotoIdle \/ ExtractGotoIdleRaises
    \/ ExtractGotoLoad \/ ExtractGotoLoadRaises
    \/ ExtractEval \/ ExtractEvalRaises \/ ExtractReturns
    \/ CollectNewPage \/ ResponseArrives \/ TaskStep
    \/ CollectGotoIdle \/ CollectGotoIdleRaises
    \/ CollectGotoLoad \/ CollectGotoLoadRaises
    \/ WaitForResponseReturns \/ WaitForResponseTimesOut \/ SettleDone
    \/ GatherDone \/ CollectReturns \/ MainCloseContext

Spec == Init /\ [][Next]_vars

(***************************************************************************)
(* Claims about the pure functions.                                        *)
(***************************************************************************)
NoDuplicates(s) == \A i, j \in DOMAIN s : i # j => s[i] # s[j]

\* the position of the first occurrence of x in s (0 when absent)
FirstIndex(s, x) ==
    IF \E i \in DOMAIN s : s[i] = x
    THEN CHOOSE i \in DOMAIN s : s[i] = x /\ \A j \in 1..(i - 1) : s[j] # x
    ELSE 0

InFirstSeenOrder(out, in) ==
    /\ Range(out) = Range(in)
    /\ NoDuplicates(out)
    /\ \A i, j \in DOMAIN out :
          i < j => FirstIndex(in, out[i]) < FirstIndex(in, out[j])

NonBlank(line) == line # <<>>

\* the explicit URLs, then the stripped non-blank lines of an existing file
Concatenation ==
    args.urls \o
    (IF args.url_file = "present"
     THEN SelectSeq([i \in DOMAIN args.lines |-> strip(args.lines[i])], NonBlank)
     ELSE <<>>)

\* C7: read_urls returns each distinct URL of (explicit URLs, then non-blank
\* file lines) exactly once, in the order of first occurrence, URLs compared
\* as exact strings; a file that does not exist contributes nothing.
C7_ReadUrlsFirstSeenUnique ==
    fpc = "returned" =>
        /\ InFirstSeenOrder(ret, Concatenation)
        /\ (args.url_file # "present" => Range(ret) = Range(args.urls))

\* C7 witness: a URL given explicitly and again in the file (after strip),
\* next to a URL that differs from it only by a trailing slash.
C7_Witness ==
    /\ fpc = "returned"
    /\ args.url_file = "present"
    /\ \E i \in DOMAIN args.urls, j \in DOMAIN args.lines :
          /\ strip(args.lines[j]) = args.urls[i]
          /\ args.lines[j] # args.urls[i]
    /\ \E i \in DOMAIN args.lines : strip(args.lines[i]) = <<>>
    /\ <<"a">> \in Range(ret) /\ <<"a", "/">> \in Range(ret)
    /\ Len(ret) < Len(Concatenation)

Hrefs_of(anchors) == [i \in DOMAIN anchors |-> anchors[i].href]

\* C8: when a slug S is derived from the listing URL, no returned entry's
\* url lacks S as a substring, no two returned entries share a url, and the
\* entries stand in the DOM order of the first occurrence of their url.
C8_ExtractSlugUniqueOrdered ==
    LET S == base_slug_of(args.playlist_urls[1])
        hrefs == Hrefs_of(dom)
        out == [i \in DOMAIN ret |-> ret[i].url]
    IN  (fpc = "returned" /\ S # None) =>
            /\ \A i \in DOMAIN ret : Contains(ret[i].url, S)
            /\ NoDuplicates(out)
            /\ Range(out) \subseteq Range(hrefs)
            /\ \A i, j \in DOMAIN out :
                  i < j => FirstIndex(hrefs, out[i]) < FirstIndex(hrefs, out[j])
            /\ \A i \in DOMAIN ret :
                  ret[i].title = strip(dom[FirstIndex(hrefs, out[i])].text)

\* C8 witness: a slug is derived, one anchor of another show is dropped, one
\* href occurs twice and is returned once.
C8_Witness ==
    LET S == base_slug_of(args.playlist_urls[1])
        hrefs == Hrefs_of(dom)
    IN  /\ fpc = "returned" /\ S # None
        /\ \E i \in DOMAIN hrefs : ~Contains(hrefs[i], S)
        /\ ~NoDuplicates(hrefs)
        /\ Len(ret) = 1

(***************************************************************************)
(* Claims about a run of main.                                             *)
(***************************************************************************)
TaskOf(rid) == {i \in DOMAIN tasks : tasks[i].rid = rid}

EntriesOf(rid) == {k \in DOMAIN collected : collected[k].rid = rid}

DecodeSucceeds(r) == ~json_raises(r) \/ ~text_raises(r)

\* collect_barrage_for_page leaves page.close() and returns collected
Returning == cpc = "closing" /\ cpc' # "closing"

\* C1: page.close() is awaited only when every handle_response task
\* scheduled so far for a "getBarrage" response has completed, whenever the
\* responses arrive.
C1_CloseOnlyAfterEveryTask ==
    cpc = "closing" =>
        \A i \in DOMAIN tasks :
            is_barrage(responses[tasks[i].rid].r) => Finished(tasks[i])

\* C2: the observer is installed before the first page.goto, so every
\* "getBarrage" response received from the start of navigation until the
\* drain begins has a task scheduled and, when its decode succeeds, an entry
\* in the returned list.
C2_EarlyResponsesCaptured ==
    /\ cpc \in Suspended =>
          \A rid \in DOMAIN responses :
              (~responses[rid].at_drain /\ is_barrage(responses[rid].r))
                  => TaskOf(rid) # {}
    /\ cpc = "closing" =>
          \A rid \in DOMAIN responses :
              (/\ ~responses[rid].at_drain
               /\ is_barrage(responses[rid].r)
               /\ DecodeSucceeds(responses[rid].r))
                  => \E k \in EntriesOf(rid) :
                        collected[k].api_url = responses[rid].r.url

\* C2 witness: the page is being closed after a wait that timed out, so the
\* "getBarrage" response it captured came during navigation.
C2_Witness ==
    /\ cpc = "closing" /\ ~first_matched /\ ~settled
    /\ \E rid \in DOMAIN responses :
          /\ ~responses[rid].at_drain
          /\ is_barrage(responses[rid].r)
          /\ EntriesOf(rid) # {}

\* C3 as stated: the settle window has been waited whenever the drain
\* begins, after a first match and after a timeout alike.
C3_SettleBeforeEveryDrain ==
    cpc \in {"drain", "closing"} => settled

\* C3 as amended: the settle window has been waited when the drain begins
\* exactly when page.wait_for_response returned a matching response; after
\* a timeout the drain begins with no settle wait.
C3_SettleOnlyAfterFirstMatch ==
    cpc \in {"drain", "closing"} => (settled <=> first_matched)

\* C3 witness: the drain begins after a first match and the settle window.
C3_Witness ==
    cpc = "drain" /\ first_matched /\ settled

\* C4: when collect_barrage_for_page returns an empty list, no file is
\* written for the entry and main goes on with the next entry (or, after the
\* last one, ends the run normally); a timeout of the wait for the first
\* match raises nothing out of collect_barrage_for_page.
C4_EmptyResultSkipsAndContinues ==
    [][ /\ (Returning /\ collected = <<>>) =>
             /\ files' = files
             /\ mpc' # "aborted"
             /\ idx' = idx + 1
             /\ IF idx < Len(unique_entries)
                THEN mpc' = "in_collect" /\ cpc' = "new_page"
                ELSE mpc' = "closing_context"
        /\ (cpc = "wait_resp" /\ ~first_matched /\ cpc' # "wait_resp") =>
             /\ cpc' \in {"drain", "closing"}
             /\ mpc' = "in_collect"
      ]_vars

\* C4 witness: the second entry is being visited and the first, whose visit
\* received no response, has no file.
C4_Witness ==
    /\ idx = 2 /\ cpc = "goto1" /\ received = 0
    /\ \A f \in files : f.idx # 1

\* C5: whatever the outcomes of the two page.goto attempts of the page
\* visits, main goes on to the later entries: when the run is over, the loop
\* has reached the last entry of the list.
C5_NavigationFailureNeverEndsRun ==
    mpc \in {"done", "aborted"} => idx >= Len(unique_entries)

\* extract_episode_urls raises: out of the second page.goto or out of
\* page.eval_on_selector_all
ListingRaises ==
    \/ epc = "goto2" /\ epc' \notin {"goto2", "eval"}
    \/ epc = "eval" /\ epc' \notin {"eval", "closing"}

\* C6: an exception of extract_episode_urls is caught in main: the listing
\* adds no entry, the next listing is resolved, and after the last listing
\* the entries collected so far are visited.
C6_ListingFailureIsCaught ==
    [][ ListingRaises =>
          /\ mpc' # "aborted"
          /\ episode_entries' = episode_entries
          /\ pl_idx' = pl_idx + 1
          /\ IF pl_idx < Len(args.playlist_urls)
             THEN mpc' = "in_extract" /\ epc' = "new_page"
             ELSE IF episode_entries # <<>>
             THEN /\ mpc' = "in_collect" /\ cpc' = "new_page" /\ idx' = 1
                  /\ \A i \in DOMAIN episode_entries :
                        \E j \in DOMAIN unique_entries' :
                            unique_entries'[j].url = episode_entries[i].url
             ELSE mpc' = "done"
      ]_vars

\* C6 witness: the first listing raised (its page is still open) and the
\* second listing is being resolved, with an explicit URL already collected.
C6_Witness ==
    /\ mpc = "in_extract" /\ pl_idx = 2 /\ epc = "goto1" /\ pages = 2
    /\ episode_entries # <<>>

\* C9: the list that collect_barrage_for_page returns holds exactly one
\* entry for each response whose URL contains "getBarrage" and none for any
\* other; the entry has the response's api_url, status and headers, and as
\* body the parsed JSON when response.json() succeeds, the raw text otherwise.
C9_OneEntryPerBarrageResponse ==
    [][ Returning =>
          /\ \A rid \in DOMAIN responses :
                Cardinality(EntriesOf(rid)) =
                    (IF is_barrage(responses[rid].r) THEN 1 ELSE 0)
          /\ \A k \in DOMAIN collected :
                LET r == responses[collected[k].rid].r
                IN  /\ collected[k].api_url = r.url
                    /\ collected[k].status = r.status
                    /\ collected[k].headers = r.headers
                    /\ collected[k].body =
                          (IF IsNumber(r.text) THEN json_value(r)
                                               ELSE text_value(r))
      ]_vars

\* C10: at most one page is open in the browsing context at any time.
C10_AtMostOnePageOpen ==
    pages <= 1

HasWord(text) == \E i \in DOMAIN text : text[i] \in Letters \cup Range(Digits)

\* C13: for every label over the alphabet, sanitize_label returns a
\* non-empty string with no reserved character and no whitespace, and it
\* returns "episode" exactly when the label has no letter and no digit, that
\* is, when cleaning leaves nothing.
C13_SanitizedIsSafeAndNonEmpty ==
    fpc = "returned" =>
        /\ ret # <<>>
        /\ Range(ret) \cap (Reserved \cup Whitespace \cup {FullwidthSolidus}) = {}
        /\ (ret = Episode) <=> ~HasWord(input)

\* C13 witness: a label with a reserved character and inner whitespace that
\* is not reduced to the fallback.
C13_Witness ==
    /\ fpc = "returned"
    /\ Range(input) \cap Reserved # {}
    /\ Range(strip(input)) \cap Whitespace # {}
    /\ ret # Episode

\* C14: sanitize_label(sanitize_label(x)) = sanitize_label(x) for every label
\* x over the alphabet.
C14_SanitizeIdempotent ==
    fpc = "returned twice" => ret2 = ret

\* C14 witness: a label that mixes two of '-', '_' and '.' with a letter or
\* a digit and that sanitize_label changes, sanitized twice.
C14_Witness ==
    /\ fpc = "returned twice"
    /\ Cardinality(Range(input) \cap {"-", "_", "."}) >= 2
    /\ HasWord(input)
    /\ ret # input

\* C11: the label of an entry is "ep" and the two-digit index when the
\* entry's sanitized title is empty or equals, ignoring case, the two-digit
\* index or "ep" and the two-digit index; otherwise it is the sanitized title.
C11_LabelFromTitleOrIndex ==
    fpc = "returned" =>
        LET T == IF input.title = <<>> THEN <<>> ELSE sanitize_label(input.title)
            nn == two_digits(input.idx)
            epnn == <<"e", "p">> \o nn
        IN  ret = IF T = <<>> \/ lower(T) \in {nn, epnn} THEN epnn ELSE T

\* C11 witness: a title that differs from "ep" and the index only by case;
\* the label is the lower-case form.
C11_Witness ==
    /\ fpc = "returned"
    /\ input.title # ret
    /\ lower(input.title) = ret
    /\ ret = ep(input.idx)

FileName(prefix, label) == prefix \o <<"_">> \o label \o BarrageJson

\* C12 (as stated): the file name is prefix_label_barrage.json where the
\* prefix is the sanitized series name whenever --series-name is given, and
\* the two-digit index only when it is not given.
C12_PrefixWheneverSeriesNameGiven ==
    fpc = "returned" =>
        ret2 = FileName(IF args.series_name # None
                        THEN sanitize_label(args.series_name)
                        ELSE two_digits(input.idx), ret)

\* C12 (amended): the file name is prefix_label_barrage.json where the prefix
\* is the sanitized series name when --series-name is given and is not the
\* empty string, and the two-digit index when it is absent or empty.
C12_PrefixWhenSeriesNameNonEmpty ==
    fpc = "returned" =>
        ret2 = FileName(IF args.series_name # None /\ args.series_name # <<>>
                        THEN sanitize_label(args.series_name)
                        ELSE two_digits(input.idx), ret)

\* C12 witness: a series name that sanitize_label changes is the prefix of
\* the file name of an entry whose label is its title.
C12_Witness ==
    /\ fpc = "returned"
    /\ args.series_name = <<"a", " ", "b">>
    /\ ret = input.title
    /\ ret2 = <<"a", "_", "b", "_">> \o input.title \o BarrageJson

\* C15: every file written has count = len(requests) and count >= 1, and all
\* files of one run carry the same captured_at, the clock read once before
\* the first page was opened (the clock shows 0 until then).
C15_CountAndOneTimestamp ==
    \A f \in files :
        /\ f.count = Len(f.requests)
        /\ f.count >= 1
        /\ f.captured_at = 0
        /\ \A g \in files : g.captured_at = f.captured_at

\* C15 witness: a finished run that wrote two files, the second one after
\* the clock had advanced past the opening of the second page.
C15_Witness ==
    /\ mpc = "done"
    /\ Cardinality(files) = 2
    /\ now >= 2

\* C16: every visit of collect_barrage_for_page ends through page.close(),
\* with every scheduled task finished and the page closed, navigation
\* failures included; and each visit is of the entry after the last one
\* visited, so no entry is visited twice.
C16_EveryVisitEndsDrainedAndClosed ==
    [][ /\ (cpc \in Suspended /\ cpc' \notin Suspended) =>
              /\ cpc = "closing"
              /\ pages' = pages - 1
              /\ \A i \in DOMAIN tasks : Finished(tasks[i])
        /\ (cpc # "new_page" /\ cpc' = "new_page") => idx' = idx + 1 ]_vars

UrlsOf(entries) == [k \in DOMAIN entries |-> entries[k].url]

IsPrefix(s, t) == Len(s) <= Len(t) /\ SubSeq(t, 1, Len(s)) = s

\* the visited list against the entries of the run, a predicate of mpc,
\* urls, episode_entries and unique_entries that holds before main starts
VisitedIsFirstSeen ==
    mpc \in {"in_collect", "closing_context"} =>
        /\ SubSeq(UrlsOf(episode_entries), 1, Len(urls)) = urls
        /\ \A k \in 1..Len(urls) : episode_entries[k].title = <<>>
        /\ InFirstSeenOrder(UrlsOf(unique_entries), UrlsOf(episode_entries))
        /\ \A k \in DOMAIN unique_entries :
               unique_entries[k] =
                   episode_entries[FirstIndex(UrlsOf(episode_entries),
                                              unique_entries[k].url)]
        /\ \A k \in DOMAIN unique_entries :
               unique_entries[k].url \in Range(urls) =>
                   unique_entries[k].title = <<>>

\* C17: the entries of the run begin with the explicit and file urls, with
\* empty titles, and the results of the listings are appended after them,
\* one listing after the other in the order given; once the listings are
\* done, the visited list holds each url of these entries exactly once, in
\* first-seen order, and each visited entry is the first entry seen with its
\* url, so a url that was given explicitly is visited with an empty title.
C17_VisitedFirstSeenExplicitWins ==
    [][ /\ IsPrefix(episode_entries, episode_entries')
        /\ pl_idx' >= pl_idx
        /\ <<mpc, urls, episode_entries, unique_entries>>'
              # <<mpc, urls, episode_entries, unique_entries>>
           => VisitedIsFirstSeen' ]_vars

\* C17 witness: a url given explicitly was also found by a listing, with a
\* title, and is visited once with the empty title.
C17_Witness ==
    /\ mpc = "in_collect"
    /\ \E k \in DOMAIN episode_entries :
           /\ episode_entries[k].url \in Range(urls)
           /\ episode_entries[k].title # <<>>
    /\ Len(unique_entries) < Len(episode_entries)

\* C18 (as stated): with slug S derived from the listing URL, an anchor with
\* a non-empty href is missing from the result exactly when its href does not
\* contain S; every other anchor's href is in the result, once; when no slug
\* is derived no anchor is missing.
C18_DroppedIffSlugMissing ==
    LET S == base_slug_of(args.playlist_urls[1])
        out == [i \in DOMAIN ret |-> ret[i].url]
    IN  fpc = "returned" =>
            /\ NoDuplicates(out)
            /\ \A i \in DOMAIN dom :
                  dom[i].href # <<>> =>
                      ((dom[i].href \notin Range(out))
                          <=> (S # None /\ S # <<>> /\ ~Contains(dom[i].href, S)))

\* C18 (amended): with slug S derived from the listing URL, an anchor with a
\* non-empty href is missing from the result exactly when its href does not
\* contain "/play/" followed by S; every other anchor's href is in the
\* result, once; when no slug is derived no anchor is missing.
C18_DroppedIffPlaySlugMissing ==
    LET S == base_slug_of(args.playlist_urls[1])
        out == [i \in DOMAIN ret |-> ret[i].url]
    IN  fpc = "returned" =>
            /\ NoDuplicates(out)
            /\ \A i \in DOMAIN dom :
                  dom[i].href # <<>> =>
                      ((dom[i].href \notin Range(out))
                          <=> (S # None /\ S # <<>>
                                 /\ ~Contains(dom[i].href, PlayMarker \o S)))

\* C18 witness: a slug is derived; an anchor whose href holds the slug, but
\* not after "/play/", is dropped, and an anchor of the listing's show is
\* returned.
C18_Witness ==
    LET S == base_slug_of(args.playlist_urls[1])
        out == [i \in DOMAIN ret |-> ret[i].url]
    IN  /\ fpc = "returned" /\ S # None
        /\ \E i \in DOMAIN dom :
              /\ Contains(dom[i].href, S)
              /\ ~Contains(dom[i].href, PlayMarker \o S)
              /\ dom[i].href \notin Range(out)
        /\ out # <<>>

\* C19: a visit that returns a non-empty capture adds one file: it never
\* writes to the path of a file written for another entry, so at the end the
\* number of files is the number of entries with a non-empty capture.
C19_EveryCaptureAddsAFile ==
    [][ (Returning /\ collected # <<>>) =>
            Cardinality(files') = Cardinality(files) + 1 ]_vars

\* C20: in a run that obtained a browsing context and has returned, exactly
\* one close has been made: of the browser when the run launched it, of the
\* context when the browser was attached over CDP or the context is a
\* persistent one; this holds also when the entry list was empty after the
\* listings.  And no close is made before the run is over.
C20_ContextClosedOnceAtEnd ==
    /\ (mpc = "done" /\ context # "None") =>
           closes = IF browser = "launched" THEN <<"browser.close">>
                    ELSE <<"context.close">>
    /\ closes # <<>> => mpc = "done"

====
